---- MODULE Spec2Model ----
(***************************************************************************)
(* A model of the pankti (vabna) interpreter core: the Pratt parser of     *)
(* parser.go working on a token stream, and the tree-walking evaluator of  *)
(* evaluator/evaluator.go working on the parsed program.                   *)
(***************************************************************************)
EXTENDS Integers, Sequences, FiniteSets, TLC

\* ------------------------------------------------------------------ bounds
\* longest generated token stream of the parser specification
MaxLen == 3
\* number of times one `jotokhon` loop may re-enter its body before the
\* model stops following it (the loop is then reported as still running)
MaxIter == 3
\* number of entries of a hash literal whose order of evaluation is chosen
MaxPairs == 2
\* longest statement list of a generated if/else block
MaxStmts == 2

\* ------------------------------------------------------- precedence table
LOWEST == 1
EQUALS == 2
LTGT == 3
SUM == 4
PROD == 5
PREFIX == 6
CALL == 7
INDEX == 8

precedences(t) ==
  CASE t \in {"EQEQ", "NOT_EQ"} -> EQUALS
    [] t \in {"LT", "GT", "GTE", "LTE"} -> LTGT
    [] t \in {"PLUS", "MINUS"} -> SUM
    [] t \in {"DIV", "MUL"} -> PROD
    [] t = "LPAREN" -> CALL
    [] t = "LS_BRACKET" -> INDEX
    [] OTHER -> 0

\* ------------------------------------------------------------------ tokens
\* A token is its kind, its literal and (for NUM) the decimal digits of the
\* literal.
Tk(t, lit) == [t |-> t, lit |-> lit, digits |-> <<>>]
TNum(ds) == [t |-> "NUM", lit |-> "", digits |-> ds]
EOFTok == Tk("EOF", "")

\* The lexer hands out toks[1], toks[2], ... and EOF for ever after.
TokAt(toks, i) == IF i <= Len(toks) THEN toks[i] ELSE EOFTok

\* ------------------------------------------------------------------ parser
\* Parser state: the token stream, the index of curTok (peekTok is the next
\* one), the recorded errors, and `stall`, set when a loop of the parser
\* goes round without having moved curTok.
NewParser(toks) == [toks |-> toks, pos |-> 1, errs |-> <<>>, stall |-> FALSE]

curTok(p) == TokAt(p.toks, p.pos)
peekTok(p) == TokAt(p.toks, p.pos + 1)

nextToken(p) ==
  IF p.pos > Len(p.toks) THEN p ELSE [p EXCEPT !.pos = @ + 1]

isCurToken(p, t) == curTok(p).t = t
isPeekToken(p, t) == peekTok(p).t = t

peekErr(p, t) ==
  [p EXCEPT !.errs = Append(@, [kind |-> "PeekError", expected |-> t,
                                got |-> peekTok(p).t])]

noPrefixFunctionErr(p) ==
  [p EXCEPT !.errs = Append(@,
     [kind |-> IF curTok(p).t = "FUNC" THEN "NoEktiError" ELSE "NoPrefixSuffixError",
      expected |-> "", got |-> curTok(p).t])]

\* peek: advance when the next token is t, else record a PeekError
peek(p, t) ==
  IF isPeekToken(p, t) THEN [p |-> nextToken(p), ok |-> TRUE]
  ELSE [p |-> peekErr(p, t), ok |-> FALSE]

peekPrec(p) ==
  IF precedences(peekTok(p).t) # 0 THEN precedences(peekTok(p).t) ELSE LOWEST

curPrec(p) ==
  IF precedences(curTok(p).t) # 0 THEN precedences(curTok(p).t) ELSE LOWEST

\* the nil expression / nil statement list of a failed production
NilNode == [type |-> "nil"]
\* parseLetStmt's nil *ast.LetStmt: a non-nil ast.Stmt holding a nil pointer
NilLetStmt == [type |-> "NilLetStmt"]

Res(p, n) == [p |-> p, n |-> n]

\* a loop went round from p to q without moving curTok
Stalled(p, q) == q.pos <= p.pos
Stall(q) == [q EXCEPT !.stall = TRUE]

prefixTokens ==
  {"IDENT", "NUM", "MINUS", "EXC", "TRUE", "FALSE", "LPAREN", "IF", "WHILE",
   "EKTI", "STRING", "LS_BRACKET", "LBRACE"}
infixTokens ==
  {"PLUS", "MINUS", "DIV", "MUL", "EQEQ", "NOT_EQ", "LT", "GTE", "GT", "LTE",
   "LPAREN", "LS_BRACKET"}

RECURSIVE DigitsValue(_)
DigitsValue(ds) ==
  IF ds = <<>> THEN 0
  ELSE 10 * DigitsValue(SubSeq(ds, 1, Len(ds) - 1)) + ds[Len(ds)]

parseIdent(p) == Res(p, [type |-> "Identifier", value |-> curTok(p).lit])
parseBool(p) == Res(p, [type |-> "Boolean", value |-> isCurToken(p, "TRUE")])
parseStringLit(p) == Res(p, [type |-> "StringLit", value |-> curTok(p).lit])
parseNumLit(p) ==
  Res(p, [type |-> "NumberLit", value |-> DigitsValue(curTok(p).digits)])
parseComment(p) == Res(p, [type |-> "Comment", value |-> curTok(p).lit])

\* p.parseStmt() and p.parseExpr(prec) call each other through the
\* productions; `parse` is such a call: what = "Stmt" or "Expr"
RECURSIVE parse(_, _, _)
RECURSIVE parseExprLoop(_, _, _), parseExprListLoop(_, _)
RECURSIVE parseBlockLoop(_, _, _), parseTrueBlockLoop(_, _)
RECURSIVE parseFuncParamsLoop(_, _), parseHashLoop(_, _)
RECURSIVE parseLetSemicolons(_)

parsePrefixExpr(p) ==
  LET r == parse("Expr", nextToken(p), PREFIX) IN
  Res(r.p, [type |-> "PrefixExpr", op |-> curTok(p).lit, right |-> r.n])

parseInfixExpr(p, left) ==
  LET r == parse("Expr", nextToken(p), curPrec(p)) IN
  Res(r.p, [type |-> "InfixExpr", op |-> curTok(p).lit, left |-> left,
            right |-> r.n])

parseGroupedExpr(p) ==
  LET e == parse("Expr", nextToken(p), LOWEST)
      k == peek(e.p, "RPAREN")
  IN  IF k.ok THEN Res(k.p, e.n) ELSE Res(k.p, NilNode)

parseExprListLoop(p, list) ==
  IF isPeekToken(p, "COMMA")
  THEN LET e == parse("Expr", nextToken(nextToken(p)), LOWEST) IN
       IF Stalled(p, e.p) THEN Res(Stall(e.p), Append(list, e.n))
       ELSE parseExprListLoop(e.p, Append(list, e.n))
  ELSE Res(p, list)

\* the list of expressions up to endtok; <<>> (a nil slice) when endtok is
\* missing
parseExprList(p, endtok) ==
  IF isPeekToken(p, endtok) THEN Res(nextToken(p), <<>>)
  ELSE LET e == parse("Expr", nextToken(p), LOWEST)
           l == parseExprListLoop(e.p, <<e.n>>)
           k == peek(l.p, endtok)
       IN  IF k.ok THEN Res(k.p, l.n) ELSE Res(k.p, <<>>)

parseArrLit(p) ==
  LET l == parseExprList(p, "RS_BRACKET") IN
  Res(l.p, [type |-> "ArrLit", elms |-> l.n])

parseCallExpr(p, function) ==
  LET l == parseExprList(p, "RPAREN") IN
  Res(l.p, [type |-> "CallExpr", func |-> function, args |-> l.n])

parseIndexExpr(p, l) ==
  LET e == parse("Expr", nextToken(p), LOWEST)
      k == peek(e.p, "RS_BRACKET")
  IN  IF k.ok THEN Res(k.p, [type |-> "IndexExpr", left |-> l, index |-> e.n])
      ELSE Res(k.p, NilNode)

\* hash.Pairs is a Go map keyed by the key expression's node: every parsed
\* key is a node of its own, and the nil expression is one key
AddPair(pairs, k, v) ==
  IF k = NilNode /\ \E i \in 1..Len(pairs) : pairs[i].k = NilNode
  THEN [i \in 1..Len(pairs) |->
          IF pairs[i].k = NilNode THEN [k |-> k, v |-> v] ELSE pairs[i]]
  ELSE Append(pairs, [k |-> k, v |-> v])

\* the loop of parseHashLit; n.ok is FALSE when the loop returned nil
parseHashLoop(p, pairs) ==
  IF ~isPeekToken(p, "RBRACE")
  THEN LET k == parse("Expr", nextToken(p), LOWEST)
           c == peek(k.p, "COLON")
       IN  IF ~c.ok THEN Res(c.p, [ok |-> FALSE, pairs |-> pairs])
           ELSE LET v == parse("Expr", nextToken(c.p), LOWEST)
                    ps == AddPair(pairs, k.n, v.n)
                    m == IF isPeekToken(v.p, "RBRACE")
                         THEN [p |-> v.p, ok |-> TRUE]
                         ELSE peek(v.p, "COMMA")
                IN  IF ~m.ok THEN Res(m.p, [ok |-> FALSE, pairs |-> ps])
                    ELSE IF Stalled(p, m.p)
                         THEN Res(Stall(m.p), [ok |-> FALSE, pairs |-> ps])
                         ELSE parseHashLoop(m.p, ps)
  ELSE Res(p, [ok |-> TRUE, pairs |-> pairs])

parseHashLit(p) ==
  LET l == parseHashLoop(p, <<>>) IN
  IF ~l.n.ok THEN Res(l.p, NilNode)
  ELSE LET k == peek(l.p, "RBRACE") IN
       IF k.ok THEN Res(k.p, [type |-> "HashLit", pairs |-> l.n.pairs])
       ELSE Res(k.p, NilNode)

\* parseBlockStmt's loop without the nextToken that ends each round
parseBlockLoopNoAdvance(p, eT, stmts) ==
  IF ~isCurToken(p, eT) /\ ~isCurToken(p, "EOF")
  THEN LET s == parse("Stmt", p, LOWEST) IN
       IF Stalled(p, s.p) THEN Res(Stall(s.p), Append(stmts, s.n))
       ELSE parseBlockLoop(s.p, eT, Append(stmts, s.n))
  ELSE Res(p, stmts)

\* the statements up to eT or EOF, one parseStmt and one nextToken each
parseBlockLoop(p, eT, stmts) ==
  IF ~isCurToken(p, eT) /\ ~isCurToken(p, "EOF")
  THEN LET s == parse("Stmt", p, LOWEST)
           q == nextToken(s.p)
       IN  IF Stalled(p, q) THEN Res(Stall(q), Append(stmts, s.n))
           ELSE parseBlockLoop(q, eT, Append(stmts, s.n))
  ELSE Res(p, stmts)

parseBlockStmt(p, eT) ==
  LET l == parseBlockLoop(nextToken(p), eT, <<>>) IN
  Res(l.p, [type |-> "BlockStmt", stmts |-> l.n])

parseFuncParamsLoop(p, ids) ==
  IF isPeekToken(p, "COMMA")
  THEN LET q == nextToken(nextToken(p)) IN
       IF Stalled(p, q) THEN Res(Stall(q), Append(ids, curTok(q).lit))
       ELSE parseFuncParamsLoop(q, Append(ids, curTok(q).lit))
  ELSE Res(p, ids)

\* the parameter names; <<>> (a nil slice) when `)` is missing
parseFuncParams(p) ==
  IF isPeekToken(p, "RPAREN") THEN Res(nextToken(p), <<>>)
  ELSE LET q == nextToken(p)
           l == parseFuncParamsLoop(q, <<curTok(q).lit>>)
           k == peek(l.p, "RPAREN")
       IN  IF k.ok THEN Res(k.p, l.n) ELSE Res(k.p, <<>>)

parseFunc(p) ==
  LET f == peek(p, "FUNC") IN
  IF ~f.ok THEN Res(f.p, NilNode)
  ELSE LET l == peek(f.p, "LPAREN") IN
       IF ~l.ok THEN Res(l.p, NilNode)
       ELSE LET ps == parseFuncParams(l.p)
                b == parseBlockStmt(ps.p, "END")
            IN  Res(b.p, [type |-> "FunctionLit", params |-> ps.n,
                          body |-> b.n])

\* the true block of parseIfExpr: statements up to ELSE or EOF
parseTrueBlockLoop(p, stmts) ==
  IF ~isCurToken(p, "ELSE") /\ ~isCurToken(p, "EOF")
  THEN LET s == parse("Stmt", p, LOWEST)
           q == nextToken(s.p)
       IN  IF Stalled(p, q) THEN Res(Stall(q), Append(stmts, s.n))
           ELSE parseTrueBlockLoop(q, Append(stmts, s.n))
  ELSE Res(p, stmts)

\* the else block of parseIfExpr: at most one statement, read only when
\* curTok is neither END nor EOF
parseElseBlock(p) ==
  IF ~isCurToken(p, "END") /\ ~isCurToken(p, "EOF")
  THEN LET s == parse("Stmt", p, LOWEST) IN Res(nextToken(s.p), <<s.n>>)
  ELSE Res(p, <<>>)

parseIfExpr(p) ==
  LET l == peek(p, "LPAREN") IN
  IF ~l.ok THEN Res(l.p, NilNode)
  ELSE LET c == parse("Expr", nextToken(l.p), LOWEST)
           r == peek(c.p, "RPAREN")
       IN  IF ~r.ok THEN Res(r.p, NilNode)
           ELSE LET t == peek(r.p, "TAHOLE") IN
                IF ~t.ok THEN Res(t.p, NilNode)
                ELSE LET tb == parseTrueBlockLoop(nextToken(t.p), <<>>)
                         eb == parseElseBlock(nextToken(tb.p))
                     IN  Res(eb.p,
                             [type |-> "IfExpr", cond |-> c.n,
                              trueBlock |-> [type |-> "BlockStmt", stmts |-> tb.n],
                              elseBlock |-> [type |-> "BlockStmt", stmts |-> eb.n]])

parseWhileExpr(p) ==
  LET l == peek(p, "LPAREN") IN
  IF ~l.ok THEN Res(l.p, NilNode)
  ELSE LET c == parse("Expr", nextToken(l.p), LOWEST)
           r == peek(c.p, "RPAREN")
       IN  IF ~r.ok THEN Res(r.p, NilNode)
           ELSE LET b == parseBlockStmt(r.p, "END") IN
                Res(b.p, [type |-> "WhileExpr", cond |-> c.n,
                          stmtBlock |-> b.n])

prefixFn(p) ==
  CASE curTok(p).t = "IDENT" -> parseIdent(p)
    [] curTok(p).t = "NUM" -> parseNumLit(p)
    [] curTok(p).t \in {"MINUS", "EXC"} -> parsePrefixExpr(p)
    [] curTok(p).t \in {"TRUE", "FALSE"} -> parseBool(p)
    [] curTok(p).t = "LPAREN" -> parseGroupedExpr(p)
    [] curTok(p).t = "IF" -> parseIfExpr(p)
    [] curTok(p).t = "WHILE" -> parseWhileExpr(p)
    [] curTok(p).t = "EKTI" -> parseFunc(p)
    [] curTok(p).t = "STRING" -> parseStringLit(p)
    [] curTok(p).t = "LS_BRACKET" -> parseArrLit(p)
    [] curTok(p).t = "LBRACE" -> parseHashLit(p)

infixFn(p, left) ==
  CASE curTok(p).t = "LPAREN" -> parseCallExpr(p, left)
    [] curTok(p).t = "LS_BRACKET" -> parseIndexExpr(p, left)
    [] OTHER -> parseInfixExpr(p, left)

parseExprLoop(p, prec, left) ==
  IF ~isPeekToken(p, "SEMICOLON") /\ prec < peekPrec(p)
  THEN IF peekTok(p).t \notin infixTokens THEN Res(p, left)
       ELSE LET r == infixFn(nextToken(p), left) IN
            IF Stalled(p, r.p) THEN Res(Stall(r.p), r.n)
            ELSE parseExprLoop(r.p, prec, r.n)
  ELSE Res(p, left)

parseExpr(p, prec) ==
  IF curTok(p).t \notin prefixTokens
  THEN Res(noPrefixFunctionErr(p), NilNode)
  ELSE LET l == prefixFn(p) IN parseExprLoop(l.p, prec, l.n)

\* skip one `;` when it is the next token
skipSemicolon(p) == IF isPeekToken(p, "SEMICOLON") THEN nextToken(p) ELSE p

parseReturnStmt(p) ==
  LET e == parse("Expr", nextToken(p), LOWEST) IN
  Res(skipSemicolon(e.p), [type |-> "ReturnStmt", returnVal |-> e.n])

parseShowStmt(p) ==
  LET l == parseExprList(nextToken(p), "RPAREN") IN
  Res(skipSemicolon(l.p), [type |-> "ShowStmt", value |-> l.n])

parseIncludeStmt(p) ==
  LET e == parse("Expr", nextToken(p), LOWEST) IN
  Res(skipSemicolon(e.p), [type |-> "IncludeStmt", filename |-> e.n])

parseLetSemicolons(p) ==
  IF isPeekToken(p, "SEMICOLON")
  THEN LET q == nextToken(p) IN
       IF Stalled(p, q) THEN Stall(q) ELSE parseLetSemicolons(q)
  ELSE p

parseLetStmt(p) ==
  LET i == peek(p, "IDENT") IN
  IF ~i.ok THEN Res(i.p, NilLetStmt)
  ELSE LET q == peek(i.p, "EQ") IN
       IF ~q.ok THEN Res(q.p, NilLetStmt)
       ELSE LET e == parse("Expr", nextToken(q.p), LOWEST) IN
            Res(parseLetSemicolons(e.p),
                [type |-> "LetStmt", name |-> curTok(i.p).lit, value |-> e.n])

parseExprStmt(p) ==
  LET e == parse("Expr", p, LOWEST) IN
  Res(skipSemicolon(e.p), [type |-> "ExprStmt", expr |-> e.n])

parseStmt(p) ==
  CASE curTok(p).t = "LET" -> parseLetStmt(p)
    [] curTok(p).t = "RETURN" -> parseReturnStmt(p)
    [] curTok(p).t = "INCLUDE" -> parseIncludeStmt(p)
    [] curTok(p).t = "COMMENT" -> parseComment(p)
    [] curTok(p).t = "SHOW" -> parseShowStmt(p)
    [] OTHER -> parseExprStmt(p)

parse(what, p, prec) ==
  IF what = "Stmt" THEN parseStmt(p) ELSE parseExpr(p, prec)

\* one round of ParseProg's loop: a statement, then nextToken
ParseProgStep(p) == [parse("Stmt", p, LOWEST) EXCEPT !.p = nextToken(@)]

\* ParseProg as a whole (used for the files that `anoo` reads)
\* r is the parser and prog.Stmts so far, s the round that started at r.p
ParseProgAppend(r, s) ==
  Res(IF Stalled(r.p, s.p) THEN Stall(s.p) ELSE s.p, Append(r.n, s.n))

RECURSIVE ParseProgLoop(_)
ParseProgLoop(r) ==
  IF curTok(r.p).t # "EOF" /\ ~r.p.stall
  THEN ParseProgLoop(ParseProgAppend(r, ParseProgStep(r.p)))
  ELSE r

ParseProg(toks) == ParseProgLoop(Res(NewParser(toks), <<>>))

\* ----------------------------------------------------------------- objects
NilObj == [type |-> "nil"]              \* a nil object.Obj: no value at all
NULL == [type |-> "NULL"]
TrueObj == [type |-> "BOOLEAN", value |-> TRUE]
FalseObj == [type |-> "BOOLEAN", value |-> FALSE]
NumberObj(n) == [type |-> "NUM", value |-> n]
StringObj(str) == [type |-> "STRING", value |-> str]
ErrorObj(msg) == [type |-> "ERROR", msg |-> msg]
\* objects allocated during evaluation carry the identity `id` of their
\* allocation, so that pointer equality can be told from equality of contents
ArrayObj(elms, id) == [type |-> "ARRAY", elms |-> elms, id |-> id]
HashObj(pairs, id) == [type |-> "HASH", pairs |-> pairs, id |-> id]
FunctionObj(params, body, env, id) ==
  [type |-> "FUNCTION", params |-> params, body |-> body, env |-> env, id |-> id]
ReturnValueObj(val, id) == [type |-> "RETURN_VAL", value |-> val, id |-> id]
\* the two ways an evaluation fails to return: a Go run-time panic (a method
\* called on a nil object or node), and a loop still running after MaxIter
\* rounds
Panic == [type |-> "PANIC"]
Running == [type |-> "RUNNING"]

getBoolObj(inp) == IF inp THEN TrueObj ELSE FalseObj

isErr(obj) == obj.type = "ERROR"

isTruthy(obj) ==
  CASE obj = NULL -> FALSE
    [] obj = TrueObj -> TRUE
    [] obj = FalseObj -> FALSE
    [] OTHER -> TRUE

unwrapRValue(o) == IF o.type = "RETURN_VAL" THEN o.value ELSE o

NewBareErr(msg) == ErrorObj(msg)
\* NewErr: the message (the source-line prefix of MakeErrorLine is left out)
NewErr(msg) == ErrorObj(msg)

\* -------------------------------------------------------------- environment
\* The heap of Env structs: heap[e] is the struct at address e, its store
\* a map from names to objects, its outer an address or 0 (nil).
EmptyStore == [n \in {} |-> NULL]
NewEnvFrame == [store |-> EmptyStore, outer |-> 0]
NewEnclosedEnvFrame(outer) == [store |-> EmptyStore, outer |-> outer]

RECURSIVE EnvGet(_, _, _)
EnvGet(heap, e, name) ==
  IF name \in DOMAIN heap[e].store THEN [ok |-> TRUE, val |-> heap[e].store[name]]
  ELSE IF heap[e].outer # 0 THEN EnvGet(heap, heap[e].outer, name)
  ELSE [ok |-> FALSE, val |-> NilObj]

EnvSet(heap, e, name, val) ==
  [heap EXCEPT ![e].store =
     [n \in DOMAIN @ \cup {name} |-> IF n = name THEN val ELSE @[n]]]

\* --------------------------------------------------------------- evaluator
\* What an evaluation carries along: the heap of environments, the print
\* buffer (one entry per write), the next object identity, the order in
\* which this run's Go maps are ranged over, and the log of loop events.
NewState(ord) ==
  [heap |-> <<NewEnvFrame>>, buf |-> <<>>, nid |-> 1, ord |-> ord, log |-> <<>>]

R(v, st) == [v |-> v, st |-> st]
Aborted(v) == v.type \in {"PANIC", "RUNNING"}

Alloc(st) == [st EXCEPT !.nid = @ + 1]
Logged(st, loop, what, v) ==
  [st EXCEPT !.log = Append(@, [loop |-> loop, what |-> what, type |-> v.type,
                                val |-> v])]

\* evalBangOp without its case for NULL
evalBangOpNoNull(r) ==
  CASE r = TrueObj -> FalseObj
    [] r = FalseObj -> TrueObj
    [] OTHER -> FalseObj

\* evalBangOp
evalBangOp(r) ==
  CASE r = TrueObj -> FalseObj
    [] r = FalseObj -> TrueObj
    [] r = NULL -> TrueObj
    [] OTHER -> FalseObj

evalMinusPrefOp(right) ==
  IF right.type = "nil" THEN Panic
  ELSE IF right.type # "NUM" THEN NewBareErr("unknown Operator : -" \o right.type)
  ELSE NumberObj(0 - right.value)

evalPrefixExpr(op, right) ==
  CASE op = "!" -> evalBangOp(right)
    [] op = "-" -> evalMinusPrefOp(right)
    [] OTHER -> IF right.type = "nil" THEN Panic
                ELSE NewBareErr("Unknown Operator : " \o op \o right.type)

\* integer division truncating toward zero
Quo(a, b) ==
  LET q == (IF a < 0 THEN 0 - a ELSE a) \div (IF b < 0 THEN 0 - b ELSE b) IN
  IF (a < 0) = (b < 0) THEN q ELSE 0 - q

\* number.NumberOperation on integers: <<val, cval, noerr>>, val absent
\* for a comparison
NumberOperation(op, lval, rval) ==
  CASE op = "+" -> [val |-> lval + rval, isNum |-> TRUE, cval |-> FALSE, noerr |-> TRUE]
    [] op = "-" -> [val |-> lval - rval, isNum |-> TRUE, cval |-> FALSE, noerr |-> TRUE]
    [] op = "*" -> [val |-> lval * rval, isNum |-> TRUE, cval |-> FALSE, noerr |-> TRUE]
    [] op = "/" -> IF rval = 0
                   THEN [val |-> 0, isNum |-> FALSE, cval |-> FALSE, noerr |-> FALSE]
                   ELSE [val |-> Quo(lval, rval), isNum |-> TRUE, cval |-> FALSE,
                         noerr |-> TRUE]
    [] op = "==" -> [val |-> 0, isNum |-> FALSE, cval |-> lval = rval, noerr |-> TRUE]
    [] op = "!=" -> [val |-> 0, isNum |-> FALSE, cval |-> lval # rval, noerr |-> TRUE]
    [] op = "<" -> [val |-> 0, isNum |-> FALSE, cval |-> lval < rval, noerr |-> TRUE]
    [] op = ">" -> [val |-> 0, isNum |-> FALSE, cval |-> lval > rval, noerr |-> TRUE]
    [] op = "<=" -> [val |-> 0, isNum |-> FALSE, cval |-> lval <= rval, noerr |-> TRUE]
    [] op = ">=" -> [val |-> 0, isNum |-> FALSE, cval |-> lval >= rval, noerr |-> TRUE]
    [] OTHER -> [val |-> 0, isNum |-> FALSE, cval |-> FALSE, noerr |-> FALSE]

evalNumInfixExpr(op, l, r) ==
  LET n == NumberOperation(op, l.value, r.value) IN
  IF n.isNum /\ n.noerr THEN NumberObj(n.val)
  ELSE IF ~n.isNum /\ n.noerr THEN getBoolObj(n.cval)
  ELSE NewBareErr("Unknown Operator for Numbers " \o op)

evalStringInfixExpr(op, l, r) ==
  CASE op = "+" -> StringObj(l.value \o r.value)
    [] op = "==" -> getBoolObj(l.value = r.value)
    [] op = "!=" -> getBoolObj(l.value # r.value)
    [] OTHER -> NewErr("Unknown Operator " \o l.type \o " " \o op \o " " \o r.type)

\* l == r on two object.Obj: the same object
SameObj(l, r) ==
  /\ l.type = r.type
  /\ CASE l.type \in {"nil", "NULL"} -> TRUE
       [] l.type = "BOOLEAN" -> l.value = r.value
       [] l.type \in {"ARRAY", "HASH", "FUNCTION", "RETURN_VAL"} -> l.id = r.id
       [] OTHER -> FALSE

\* evalInfixExpr; the cases are tried in order, and Type() on a nil object
\* panics
evalInfixExpr(op, l, r) ==
  IF l.type = "nil" THEN Panic
  ELSE IF l.type = "NUM" /\ r.type = "nil" THEN Panic
  ELSE IF l.type = "NUM" /\ r.type = "NUM" THEN evalNumInfixExpr(op, l, r)
  ELSE IF l.type = "STRING" /\ r.type = "nil" THEN Panic
  ELSE IF l.type = "STRING" /\ r.type = "STRING" THEN evalStringInfixExpr(op, l, r)
  ELSE IF op = "==" THEN getBoolObj(SameObj(l, r))
  ELSE IF op = "!=" THEN getBoolObj(~SameObj(l, r))
  ELSE IF r.type = "nil" THEN Panic
  ELSE IF l.type # r.type
       THEN NewErr("Type mismatch:  " \o l.type \o " " \o op \o " " \o r.type \o " ")
  ELSE NewErr("unknown Operator : " \o l.type \o " " \o op \o " " \o r.type)

\* Inspect of an object is a method call: it panics on a nil object
RECURSIVE HasNil(_), HasNilIn(_), HasNilPairs(_)
HasNil(obj) ==
  CASE obj.type = "nil" -> TRUE
    [] obj.type = "ARRAY" -> HasNilIn(obj.elms)
    [] obj.type = "HASH" -> HasNilPairs(obj.pairs)
    [] obj.type = "RETURN_VAL" -> HasNil(obj.value)
    [] OTHER -> FALSE
HasNilIn(objs) ==
  IF objs = <<>> THEN FALSE ELSE HasNil(Head(objs)) \/ HasNilIn(Tail(objs))
HasNilPairs(pairs) ==
  IF pairs = <<>> THEN FALSE
  ELSE HasNil(Head(pairs).key) \/ HasNil(Head(pairs).value) \/ HasNilPairs(Tail(pairs))

RECURSIVE Inspect(_), InspectElms(_), InspectPairs(_)
Inspect(obj) ==
  CASE obj.type = "NULL" -> "null"
    [] obj.type = "BOOLEAN" -> IF obj.value THEN "sotto" ELSE "mittha"
    [] obj.type = "NUM" -> ToString(obj.value)
    [] obj.type = "STRING" -> obj.value
    [] obj.type = "ARRAY" -> "[" \o InspectElms(obj.elms) \o "]"
    [] obj.type = "HASH" -> "{" \o InspectPairs(obj.pairs) \o "}"
    [] obj.type = "FUNCTION" -> "function"
    [] obj.type = "RETURN_VAL" -> Inspect(obj.value)
    [] obj.type = "ERROR" -> obj.msg
InspectElms(elms) ==
  IF elms = <<>> THEN ""
  ELSE IF Len(elms) = 1 THEN Inspect(elms[1])
  ELSE Inspect(elms[1]) \o ", " \o InspectElms(Tail(elms))
InspectPairs(pairs) ==
  IF pairs = <<>> THEN ""
  ELSE IF Len(pairs) = 1
       THEN Inspect(pairs[1].key) \o ": " \o Inspect(pairs[1].value)
  ELSE Inspect(pairs[1].key) \o ": " \o Inspect(pairs[1].value) \o ", "
       \o InspectPairs(Tail(pairs))

RECURSIVE Join(_)
Join(strs) == IF strs = <<>> THEN "" ELSE Head(strs) \o Join(Tail(strs))

\* evalShowStmt: one write of the joined Inspect strings and a newline
evalShowStmt(args, st) ==
  IF HasNilIn(args) THEN R(Panic, st)
  ELSE R(NULL, [st EXCEPT !.buf =
                  Append(@, Join([i \in 1..Len(args) |-> Inspect(args[i])]) \o "\n")])

\* object.Hashable and HashKey(): the type and the digest of the value
Hashable(obj) == obj.type \in {"STRING", "NUM", "BOOLEAN"}
HashKey(obj) == [type |-> obj.type, value |-> obj.value]
SameKey(a, b) == a.type = b.type /\ a.value = b.value

\* pairs[hashed] = HashPair{key, val}
PutPair(pairs, hashed, key, val) ==
  IF \E i \in 1..Len(pairs) : SameKey(pairs[i].hk, hashed)
  THEN [i \in 1..Len(pairs) |->
          IF SameKey(pairs[i].hk, hashed)
          THEN [hk |-> hashed, key |-> key, value |-> val] ELSE pairs[i]]
  ELSE Append(pairs, [hk |-> hashed, key |-> key, value |-> val])

evalHashIndexExpr(hash, index) ==
  IF index.type = "nil" THEN Panic
  ELSE IF ~Hashable(index)
       THEN NewErr("This cannot be used as hash key " \o index.type)
  ELSE IF \E i \in 1..Len(hash.pairs) : SameKey(hash.pairs[i].hk, HashKey(index))
       THEN hash.pairs[CHOOSE i \in 1..Len(hash.pairs) :
                         SameKey(hash.pairs[i].hk, HashKey(index))].value
  ELSE NULL

evalArrIndexExpr(arr, index) ==
  IF index.value < 0 \/ index.value > Len(arr.elms) - 1 THEN NULL
  ELSE arr.elms[index.value + 1]

evalIndexExpr(left, index) ==
  IF left.type = "nil" THEN Panic
  ELSE IF left.type = "ARRAY" /\ index.type = "nil" THEN Panic
  ELSE IF left.type = "ARRAY" /\ index.type = "NUM" THEN evalArrIndexExpr(left, index)
  ELSE IF left.type = "HASH" THEN evalHashIndexExpr(left, index)
  ELSE NewErr("Unsupported Index Operator " \o left.type \o " ")

\* the order in which a Go map of n entries is ranged over in this run
RangeOrder(n, ord) ==
  LET known(i) == i <= n IN
  SelectSeq(ord, known) \o [i \in 1..(n - Len(ord)) |-> Len(ord) + i]

\* the files `anoo` can name: whether os.Stat finds the file, whether
\* os.ReadFile reads it, and the tokens of its text
FileSystem(name) ==
  CASE name = "lib" ->
         [exists |-> TRUE, readable |-> TRUE,
          toks |-> <<Tk("LET", "dhori"), Tk("IDENT", "y"), Tk("EQ", "="),
                     TNum(<<7>>), Tk("SEMICOLON", ";"),
                     Tk("SHOW", "dekhao"), Tk("LPAREN", "("),
                     Tk("STRING", "lib"), Tk("RPAREN", ")"),
                     Tk("SEMICOLON", ";")>>]
    [] name = "bad" ->
         [exists |-> TRUE, readable |-> TRUE,
          toks |-> <<Tk("SHOW", "dekhao"), Tk("LPAREN", "("),
                     Tk("STRING", "bad"), Tk("RPAREN", ")"),
                     Tk("SEMICOLON", ";"), Tk("RPAREN", ")")>>]
    [] name = "nest" ->
         [exists |-> TRUE, readable |-> TRUE,
          toks |-> <<Tk("LET", "dhori"), Tk("IDENT", "z"), Tk("EQ", "="),
                     TNum(<<1>>), Tk("SEMICOLON", ";"),
                     Tk("INCLUDE", "anoo"), Tk("STRING", "lib"),
                     Tk("SEMICOLON", ";")>>]
    [] name = "locked" -> [exists |-> TRUE, readable |-> FALSE, toks |-> <<>>]
    [] OTHER -> [exists |-> FALSE, readable |-> FALSE, toks |-> <<>>]

\* a new Env struct on the heap; its address is Len(heap) afterwards
NewEnv(st) == [st EXCEPT !.heap = Append(@, NewEnvFrame)]
NewEnclosedEnv(st, outer) ==
  [st EXCEPT !.heap = Append(@, NewEnclosedEnvFrame(outer))]

\* evalId: the environment chain (the registry of builtins is empty)
evalId(node, env, st) ==
  LET g == EnvGet(st.heap, env, node.value) IN
  IF g.ok THEN g.val ELSE NewErr("id not found : " \o node.value)

RECURSIVE BindParams(_, _, _, _, _)
BindParams(heap, e, params, args, i) ==
  IF i > Len(params) THEN heap
  ELSE BindParams(EnvSet(heap, e, params[i], args[i]), e, params, args, i + 1)

\* extendFuncEnv without its new frame: the parameters are set in fn.Env
extendFuncEnvShared(fn, args, st) ==
  [env |-> fn.env,
   st |-> [st EXCEPT !.heap = BindParams(@, fn.env, fn.params, args, 1)]]

\* extendFuncEnv: a frame enclosed over fn.Env with each parameter set
extendFuncEnv(fn, args, st) ==
  LET s1 == NewEnclosedEnv(st, fn.env)
      e == Len(s1.heap)
  IN  [env |-> e,
       st |-> [s1 EXCEPT !.heap = BindParams(@, e, fn.params, args, 1)]]

RECURSIVE Eval(_, _, _)
RECURSIVE evalExprsLoop(_, _, _, _), evalBlockLoop(_, _, _, _)
RECURSIVE evalProgLoop(_, _, _, _), whileLoop(_, _, _, _, _, _, _)
RECURSIVE evalHashLoop(_, _, _, _, _)

\* evalExprs: the values left to right, or the one Error that stopped it;
\* ab is the panic or the running loop that ended the evaluation, if any
evalExprsLoop(es, env, st, res) ==
  IF es = <<>> THEN [vs |-> res, st |-> st, ab |-> NilObj]
  ELSE LET ev == Eval(Head(es), env, st) IN
       IF Aborted(ev.v) THEN [vs |-> <<>>, st |-> ev.st, ab |-> ev.v]
       ELSE IF isErr(ev.v) THEN [vs |-> <<ev.v>>, st |-> ev.st, ab |-> NilObj]
       ELSE evalExprsLoop(Tail(es), env, ev.st, Append(res, ev.v))

evalExprs(es, env, st) == evalExprsLoop(es, env, st, <<>>)

applyFunc(fn, args, st) ==
  CASE fn.type = "FUNCTION" ->
         IF Len(fn.params) = Len(args)
         THEN LET e == extendFuncEnv(fn, args, st)
                  evd == Eval(fn.body, e.env, e.st)
              IN  IF Aborted(evd.v) THEN evd
                  ELSE R(unwrapRValue(evd.v), evd.st)
         ELSE R(NewErr("Function call doesn't have required arguments provided; wanted = "
                       \o ToString(Len(fn.params)) \o " but got "
                       \o ToString(Len(args))), st)
    [] fn.type = "nil" -> R(Panic, st)
    [] OTHER -> R(NewBareErr(fn.type \o " is not a function"), st)

\* evalBlockStmt: the value of the last statement; a ReturnValue or an
\* Error ends the block and is handed on as it is
evalBlockLoop(stmts, env, st, res) ==
  IF stmts = <<>> THEN R(res, st)
  ELSE LET r == Eval(Head(stmts), env, st) IN
       IF Aborted(r.v) THEN r
       ELSE IF r.v.type \in {"RETURN_VAL", "ERROR"} THEN r
       ELSE evalBlockLoop(Tail(stmts), env, r.st, r.v)

evalBlockStmt(block, env, st) == evalBlockLoop(block.stmts, env, st, NilObj)

\* one round of evalProg's loop: done is TRUE when the round returns
evalProgSwitch(r) ==
  CASE Aborted(r.v) -> [v |-> r.v, st |-> r.st, done |-> TRUE]
    [] r.v.type = "RETURN_VAL" -> [v |-> r.v.value, st |-> r.st, done |-> TRUE]
    [] r.v.type = "ERROR" -> [v |-> r.v, st |-> r.st, done |-> TRUE]
    [] OTHER -> [v |-> r.v, st |-> r.st, done |-> FALSE]

evalProgRound(stmt, env, st) == evalProgSwitch(Eval(stmt, env, st))

evalProgLoop(stmts, env, st, res) ==
  IF stmts = <<>> THEN R(res, st)
  ELSE LET r == evalProgRound(Head(stmts), env, st) IN
       IF r.done THEN R(r.v, r.st)
       ELSE evalProgLoop(Tail(stmts), env, r.st, r.v)

evalProg(stmts, env, st) == evalProgLoop(stmts, env, st, NilObj)

evalIfExpr(iex, env, st) ==
  LET cond == Eval(iex.cond, env, st) IN
  IF Aborted(cond.v) \/ isErr(cond.v) THEN cond
  ELSE IF isTruthy(cond.v) THEN Eval(iex.trueBlock, env, cond.st)
  ELSE IF iex.elseBlock.type # "nil" THEN Eval(iex.elseBlock, env, cond.st)
  ELSE R(NULL, cond.st)

\* the for loop of evalWhileExpr; `loop` names this run of the loop in the
\* log, `iter` counts its rounds
whileLoop(wx, env, st, cond, result, loop, iter) ==
  IF isTruthy(cond)
  THEN IF iter >= MaxIter THEN R(Running, st)
       ELSE LET b == Eval(wx.stmtBlock, env, st) IN
            IF Aborted(b.v) THEN b
            ELSE LET c == Eval(wx.cond, env, Logged(b.st, loop, "body", b.v)) IN
                 IF Aborted(c.v) THEN c
                 ELSE whileLoop(wx, env, Logged(c.st, loop, "cond", c.v), c.v,
                                b.v, loop, iter + 1)
  ELSE R(result, st)

evalWhileExpr(wx, env, st) ==
  LET cond == Eval(wx.cond, env, st) IN
  IF Aborted(cond.v) THEN cond
  ELSE LET loop == cond.st.nid
           s1 == Logged(Alloc(cond.st), loop, "cond", cond.v)
       IN  IF isErr(cond.v) THEN R(cond.v, s1)
           ELSE whileLoop(wx, env, s1, cond.v, NilObj, loop, 0)

\* the range over node.Pairs, in the order of this run
evalHashLoop(node, env, st, order, pairs) ==
  IF order = <<>> THEN R(HashObj(pairs, st.nid), Alloc(st))
  ELSE LET key == Eval(node.pairs[Head(order)].k, env, st) IN
       IF Aborted(key.v) \/ isErr(key.v) THEN key
       ELSE IF key.v.type = "nil" THEN R(Panic, key.st)
       ELSE IF ~Hashable(key.v)
            THEN R(NewErr("object cannot be used as hash key " \o key.v.type), key.st)
       ELSE LET val == Eval(node.pairs[Head(order)].v, env, key.st) IN
            IF Aborted(val.v) \/ isErr(val.v) THEN val
            ELSE evalHashLoop(node, env, val.st, Tail(order),
                              PutPair(pairs, HashKey(key.v), key.v, val.v))

evalHashLit(node, env, st) ==
  evalHashLoop(node, env, st, RangeOrder(Len(node.pairs), st.ord), <<>>)

\* the end of evalIncludeStmt: the parsed program pr of the file is
\* evaluated in a new environment (the last of s2.heap) before its parse
\* errors are looked at; enx is the environment made on entry
evalIncluded(pr, enx, s2) ==
  LET ev == evalProg(pr.n, Len(s2.heap), s2) IN
  IF Aborted(ev.v) THEN [env |-> 0, v |-> ev.v, st |-> ev.st]
  ELSE IF Len(pr.p.errs) # 0
       THEN [env |-> enx, st |-> ev.st,
             v |-> NewErr("Include file contains parsing errors")]
  ELSE [env |-> Len(s2.heap), v |-> NULL, st |-> ev.st]

\* evalIncludeStmt: the environment of the included program, and Null or
\* an Error
evalIncludeStmt(in, e, st) ==
  LET raw == Eval(in.filename, e, st) IN
  IF Aborted(raw.v) THEN [env |-> 0, v |-> raw.v, st |-> raw.st]
  ELSE LET s1 == NewEnv(raw.st)
           enx == Len(s1.heap)
       IN
  IF raw.v.type = "nil" THEN [env |-> 0, v |-> Panic, st |-> s1]
  ELSE IF raw.v.type # "STRING"
       THEN [env |-> enx, st |-> s1,
             v |-> IF HasNil(raw.v) THEN Panic
                   ELSE NewErr("include filename is invalid " \o Inspect(raw.v))]
  ELSE LET file == FileSystem(raw.v.value) IN
  IF ~file.exists
  THEN [env |-> enx, v |-> NewErr(raw.v.value \o " include file doesnot exists"),
        st |-> s1]
  ELSE IF ~file.readable
  THEN [env |-> enx, v |-> NewErr("Failed to read include file " \o raw.v.value),
        st |-> s1]
  ELSE evalIncluded(ParseProg(file.toks), enx, NewEnv(s1))

\* Eval's use of evalIncludeStmt's result inc: *env becomes a new
\* environment enclosed over that of the included program
encloseIncluded(inc, env) ==
  IF Aborted(inc.v) \/ inc.v.type = "ERROR" THEN R(inc.v, inc.st)
  ELSE R(NilObj, [inc.st EXCEPT !.heap[env] = NewEnclosedEnvFrame(inc.env)])

Eval(node, env, st) ==
  CASE node.type = "ExprStmt" -> Eval(node.expr, env, st)
    [] node.type = "Boolean" -> R(getBoolObj(node.value), st)
    [] node.type = "NumberLit" -> R(NumberObj(node.value), st)
    [] node.type = "PrefixExpr" ->
         LET r == Eval(node.right, env, st) IN
         IF Aborted(r.v) \/ isErr(r.v) THEN r
         ELSE R(evalPrefixExpr(node.op, r.v), r.st)
    [] node.type = "InfixExpr" ->
         LET l == Eval(node.left, env, st) IN
         IF Aborted(l.v) \/ isErr(l.v) THEN l
         ELSE LET r == Eval(node.right, env, l.st) IN
              IF Aborted(r.v) \/ isErr(r.v) THEN r
              ELSE R(evalInfixExpr(node.op, l.v, r.v), r.st)
    [] node.type = "IfExpr" -> evalIfExpr(node, env, st)
    [] node.type = "WhileExpr" -> evalWhileExpr(node, env, st)
    [] node.type = "ReturnStmt" ->
         LET val == Eval(node.returnVal, env, st) IN
         IF Aborted(val.v) \/ isErr(val.v) THEN val
         ELSE R(ReturnValueObj(val.v, val.st.nid), Alloc(val.st))
    [] node.type = "ShowStmt" ->
         LET args == evalExprs(node.value, env, st) IN
         IF Aborted(args.ab) THEN R(args.ab, args.st)
         ELSE evalShowStmt(args.vs, args.st)
    [] node.type = "BlockStmt" -> evalBlockStmt(node, env, st)
    [] node.type = "LetStmt" ->
         LET val == Eval(node.value, env, st) IN
         IF Aborted(val.v) \/ isErr(val.v) THEN val
         ELSE R(NilObj, [val.st EXCEPT !.heap = EnvSet(@, env, node.name, val.v)])
    [] node.type = "NilLetStmt" -> R(Panic, st)
    [] node.type = "Identifier" -> R(evalId(node, env, st), st)
    [] node.type = "FunctionLit" ->
         R(FunctionObj(node.params, node.body, env, st.nid), Alloc(st))
    [] node.type = "CallExpr" ->
         LET fnc == Eval(node.func, env, st) IN
         IF Aborted(fnc.v) \/ isErr(fnc.v) THEN fnc
         ELSE LET args == evalExprs(node.args, env, fnc.st) IN
              IF Aborted(args.ab) THEN R(args.ab, args.st)
              ELSE IF Len(args.vs) = 1 /\ isErr(args.vs[1])
                   THEN R(args.vs[1], args.st)
              ELSE applyFunc(fnc.v, args.vs, args.st)
    [] node.type = "StringLit" -> R(StringObj(node.value), st)
    [] node.type = "ArrLit" ->
         LET elms == evalExprs(node.elms, env, st) IN
         IF Aborted(elms.ab) THEN R(elms.ab, elms.st)
         ELSE IF Len(elms.vs) = 1 /\ isErr(elms.vs[1])
              THEN R(elms.vs[1], elms.st)
         ELSE R(ArrayObj(elms.vs, elms.st.nid), Alloc(elms.st))
    [] node.type = "IndexExpr" ->
         LET left == Eval(node.left, env, st) IN
         IF Aborted(left.v) THEN left
         ELSE IF isErr(left.v) THEN R(NilObj, left.st)
         ELSE LET index == Eval(node.index, env, left.st) IN
              IF Aborted(index.v) \/ isErr(index.v) THEN index
              ELSE R(evalIndexExpr(left.v, index.v), index.st)
    [] node.type = "HashLit" -> evalHashLit(node, env, st)
    [] node.type = "IncludeStmt" ->
         encloseIncluded(evalIncludeStmt(node, env, st), env)
    [] OTHER -> R(NilObj, st)

\* ------------------------------------------------------------ token streams
Concat(a, b) == a \o b

\* the pieces the generated token streams are made of
FragmentList ==
  << <<Tk("IDENT", "x")>>,
    <<TNum(<<1>>)>>,
    <<Tk("PLUS", "+")>>,
    <<Tk("SEMICOLON", ";")>>,
    <<Tk("COMMA", ",")>>,
    <<Tk("RPAREN", ")")>>,
    <<Tk("END", "sesh")>>,
    <<Tk("ELSE", "nahole")>>,
    <<Tk("RBRACE", "}")>>,
    <<Tk("LET", "dhori"), Tk("IDENT", "x"), Tk("EQ", "=")>>,
    <<Tk("IF", "jodi"), Tk("LPAREN", "("), Tk("TRUE", "sotto"),
      Tk("RPAREN", ")"), Tk("TAHOLE", "tahole")>>,
    <<Tk("WHILE", "jotokhon"), Tk("LPAREN", "("), Tk("IDENT", "x"),
      Tk("RPAREN", ")")>>,
    <<Tk("EKTI", "ekti"), Tk("FUNC", "kaj"), Tk("LPAREN", "("),
      Tk("IDENT", "a")>>,
    <<Tk("LBRACE", "{"), Tk("IDENT", "x"), Tk("COLON", ":"), TNum(<<1>>)>>,
    <<Tk("LS_BRACKET", "["), TNum(<<1>>)>>,
    <<Tk("SHOW", "dekhao"), Tk("LPAREN", "(")>> >>

Fragments == {FragmentList[i] : i \in DOMAIN FragmentList}

\* the tokens of the surface syntax
IdTok(name) == Tk("IDENT", name)
NumTok(d) == TNum(<<d>>)
StrTok(str) == Tk("STRING", str)
LPARENTok == Tk("LPAREN", "(")
RPARENTok == Tk("RPAREN", ")")
LBRACETok == Tk("LBRACE", "{")
RBRACETok == Tk("RBRACE", "}")
LS_BRACKETTok == Tk("LS_BRACKET", "[")
RS_BRACKETTok == Tk("RS_BRACKET", "]")
COMMATok == Tk("COMMA", ",")
COLONTok == Tk("COLON", ":")
SEMICOLONTok == Tk("SEMICOLON", ";")
EQTok == Tk("EQ", "=")
EXCTok == Tk("EXC", "!")
MINUSTok == Tk("MINUS", "-")
PLUSTok == Tk("PLUS", "+")
LTTok == Tk("LT", "<")
EQEQTok == Tk("EQEQ", "==")
LETTok == Tk("LET", "dhori")
EKTITok == Tk("EKTI", "ekti")
FUNCTok == Tk("FUNC", "kaj")
IFTok == Tk("IF", "jodi")
TAHOLETok == Tk("TAHOLE", "tahole")
ELSETok == Tk("ELSE", "nahole")
ENDTok == Tk("END", "sesh")
WHILETok == Tk("WHILE", "jotokhon")
TRUETok == Tk("TRUE", "sotto")
FALSETok == Tk("FALSE", "mittha")
RETURNTok == Tk("RETURN", "fero")
SHOWTok == Tk("SHOW", "dekhao")
INCLUDETok == Tk("INCLUDE", "anoo")
COMMENTTok == Tk("COMMENT", "note")

RECURSIVE Streams(_)
Streams(n) ==
  IF n = 0 THEN {<<>>}
  ELSE LET shorter == Streams(n - 1) IN
       shorter \cup {Concat(s, f) : s \in shorter, f \in Fragments}

\* `jodi ( sotto ) tahole S.. nahole T.. sesh 4 ;` for statements S.., T..
SimpleStmts ==
  << <<NumTok(1), SEMICOLONTok>>,
     <<SHOWTok, LPARENTok, NumTok(2), RPARENTok, SEMICOLONTok>>,
     <<LETTok, IdTok("x"), EQTok, NumTok(3), SEMICOLONTok>> >>

RECURSIVE StmtTokens(_)
StmtTokens(ix) ==
  IF ix = <<>> THEN <<>> ELSE SimpleStmts[Head(ix)] \o StmtTokens(Tail(ix))

IfHead == <<IFTok, LPARENTok, TRUETok, RPARENTok, TAHOLETok>>
AfterIf == <<NumTok(4), SEMICOLONTok>>
IfElseSource(ss, ts) ==
  IfHead \o StmtTokens(ss) \o <<ELSETok>> \o StmtTokens(ts) \o <<ENDTok>> \o AfterIf

\* the sequences of at most n statement numbers
RECURSIVE StmtSeqs(_)
StmtSeqs(n) ==
  IF n = 0 THEN {<<>>}
  ELSE LET shorter == StmtSeqs(n - 1) IN
       shorter \cup {Append(s, i) : s \in shorter, i \in DOMAIN SimpleStmts}

IfElseSources ==
  {IfElseSource(ss, ts) : ss \in StmtSeqs(MaxStmts), ts \in StmtSeqs(MaxStmts)}

\* ---------------------------------------------------------------- programs
\* BEGIN ProgramList
ProgramList ==
  <<
    \* 1: ! u
    <<EXCTok, IdTok("u")>>,
    \* 2: - u
    <<MINUSTok, IdTok("u")>>,
    \* 3: u + 1
    <<IdTok("u"), PLUSTok, NumTok(1)>>,
    \* 4: 1 + u
    <<NumTok(1), PLUSTok, IdTok("u")>>,
    \* 5: u + v
    <<IdTok("u"), PLUSTok, IdTok("v")>>,
    \* 6: u [ 0 ]
    <<IdTok("u"), LS_BRACKETTok, NumTok(0), RS_BRACKETTok>>,
    \* 7: [ 1 ] [ u ]
    <<LS_BRACKETTok, NumTok(1), RS_BRACKETTok, LS_BRACKETTok, IdTok("u"),
      RS_BRACKETTok>>,
    \* 8: [ 1 , 2 ] [ 1 ]
    <<LS_BRACKETTok, NumTok(1), COMMATok, NumTok(2), RS_BRACKETTok,
      LS_BRACKETTok, NumTok(1), RS_BRACKETTok>>,
    \* 9: 1 + 2
    <<NumTok(1), PLUSTok, NumTok(2)>>,
    \* 10: dhori x = jodi ( sotto ) tahole fero 1 ; nahole sesh
    <<LETTok, IdTok("x"), EQTok, IFTok, LPARENTok, TRUETok, RPARENTok,
      TAHOLETok, RETURNTok, NumTok(1), SEMICOLONTok, ELSETok, ENDTok>>,
    \* 11: fero jodi ( sotto ) tahole fero 1 ; nahole sesh
    <<RETURNTok, IFTok, LPARENTok, TRUETok, RPARENTok, TAHOLETok, RETURNTok,
      NumTok(1), SEMICOLONTok, ELSETok, ENDTok>>,
    \* 12: dhori f = ekti kaj ( ) fero jodi ( sotto ) tahole fero 1 ; nahole sesh sesh ; dhori y = f ( ) ;
    <<LETTok, IdTok("f"), EQTok, EKTITok, FUNCTok, LPARENTok, RPARENTok,
      RETURNTok, IFTok, LPARENTok, TRUETok, RPARENTok, TAHOLETok, RETURNTok,
      NumTok(1), SEMICOLONTok, ELSETok, ENDTok, ENDTok, SEMICOLONTok, LETTok,
      IdTok("y"), EQTok, IdTok("f"), LPARENTok, RPARENTok, SEMICOLONTok>>,
    \* 13: dhori f = ekti kaj ( a ) fero a ; sesh ; f ( 1 )
    <<LETTok, IdTok("f"), EQTok, EKTITok, FUNCTok, LPARENTok, IdTok("a"),
      RPARENTok, RETURNTok, IdTok("a"), SEMICOLONTok, ENDTok, SEMICOLONTok,
      IdTok("f"), LPARENTok, NumTok(1), RPARENTok>>,
    \* 14: 1 + jodi ( sotto ) tahole fero 2 ; nahole sesh
    <<NumTok(1), PLUSTok, IFTok, LPARENTok, TRUETok, RPARENTok, TAHOLETok,
      RETURNTok, NumTok(2), SEMICOLONTok, ELSETok, ENDTok>>,
    \* 15: dhori x = 1 ;
    <<LETTok, IdTok("x"), EQTok, NumTok(1), SEMICOLONTok>>,
    \* 16: #
    <<COMMENTTok>>,
    \* 17: anoo "lib" ;
    <<INCLUDETok, StrTok("lib"), SEMICOLONTok>>,
    \* 18: anoo "lib" ; dekhao ( y ) ;
    <<INCLUDETok, StrTok("lib"), SEMICOLONTok, SHOWTok, LPARENTok,
      IdTok("y"), RPARENTok, SEMICOLONTok>>,
    \* 19: dhori x = 1 ; anoo "lib" ; dekhao ( x ) ;
    <<LETTok, IdTok("x"), EQTok, NumTok(1), SEMICOLONTok, INCLUDETok,
      StrTok("lib"), SEMICOLONTok, SHOWTok, LPARENTok, IdTok("x"), RPARENTok,
      SEMICOLONTok>>,
    \* 20: anoo "bad" ;
    <<INCLUDETok, StrTok("bad"), SEMICOLONTok>>,
    \* 21: anoo "none" ;
    <<INCLUDETok, StrTok("none"), SEMICOLONTok>>,
    \* 22: anoo "locked" ;
    <<INCLUDETok, StrTok("locked"), SEMICOLONTok>>,
    \* 23: anoo 1 ;
    <<INCLUDETok, NumTok(1), SEMICOLONTok>>,
    \* 24: jodi ( mittha ) tahole 1 nahole sesh
    <<IFTok, LPARENTok, FALSETok, RPARENTok, TAHOLETok, NumTok(1), ELSETok,
      ENDTok>>,
    \* 25: jodi ( sotto ) tahole 1 nahole sesh
    <<IFTok, LPARENTok, TRUETok, RPARENTok, TAHOLETok, NumTok(1), ELSETok,
      ENDTok>>,
    \* 26: jodi ( mittha ) tahole 1 nahole 2 sesh
    <<IFTok, LPARENTok, FALSETok, RPARENTok, TAHOLETok, NumTok(1), ELSETok,
      NumTok(2), ENDTok>>,
    \* 27: jodi ( [ 1 ] [ 5 ] ) tahole 1 nahole sesh
    <<IFTok, LPARENTok, LS_BRACKETTok, NumTok(1), RS_BRACKETTok,
      LS_BRACKETTok, NumTok(5), RS_BRACKETTok, RPARENTok, TAHOLETok,
      NumTok(1), ELSETok, ENDTok>>,
    \* 28: jodi ( u ) tahole 1 nahole sesh
    <<IFTok, LPARENTok, IdTok("u"), RPARENTok, TAHOLETok, NumTok(1), ELSETok,
      ENDTok>>,
    \* 29: dhori f = ekti kaj ( a ) dekhao ( a ) ; fero a ; sesh ; dhori h = { f ( 1 ) : 1 , f ( 2 ) : 2 } ;
    <<LETTok, IdTok("f"), EQTok, EKTITok, FUNCTok, LPARENTok, IdTok("a"),
      RPARENTok, SHOWTok, LPARENTok, IdTok("a"), RPARENTok, SEMICOLONTok,
      RETURNTok, IdTok("a"), SEMICOLONTok, ENDTok, SEMICOLONTok, LETTok,
      IdTok("h"), EQTok, LBRACETok, IdTok("f"), LPARENTok, NumTok(1),
      RPARENTok, COLONTok, NumTok(1), COMMATok, IdTok("f"), LPARENTok,
      NumTok(2), RPARENTok, COLONTok, NumTok(2), RBRACETok, SEMICOLONTok>>,
    \* 30: { 1 : 1 , 1 : 2 } [ 1 ]
    <<LBRACETok, NumTok(1), COLONTok, NumTok(1), COMMATok, NumTok(1),
      COLONTok, NumTok(2), RBRACETok, LS_BRACKETTok, NumTok(1),
      RS_BRACKETTok>>,
    \* 31: { "k" : 1 , "j" : 2 } [ "k" ]
    <<LBRACETok, StrTok("k"), COLONTok, NumTok(1), COMMATok, StrTok("j"),
      COLONTok, NumTok(2), RBRACETok, LS_BRACKETTok, StrTok("k"),
      RS_BRACKETTok>>,
    \* 32: jotokhon ( sotto ) u sesh
    <<WHILETok, LPARENTok, TRUETok, RPARENTok, IdTok("u"), ENDTok>>,
    \* 33: dhori x = 0 ; jotokhon ( x < 1 ) dhori x = "s" ; sesh
    <<LETTok, IdTok("x"), EQTok, NumTok(0), SEMICOLONTok, WHILETok,
      LPARENTok, IdTok("x"), LTTok, NumTok(1), RPARENTok, LETTok, IdTok("x"),
      EQTok, StrTok("s"), SEMICOLONTok, ENDTok>>,
    \* 34: jotokhon ( u ) 1 sesh
    <<WHILETok, LPARENTok, IdTok("u"), RPARENTok, NumTok(1), ENDTok>>,
    \* 35: dhori x = 2 ; jotokhon ( 0 < x ) dhori x = x - 1 ; sesh ; dekhao ( x ) ;
    <<LETTok, IdTok("x"), EQTok, NumTok(2), SEMICOLONTok, WHILETok,
      LPARENTok, NumTok(0), LTTok, IdTok("x"), RPARENTok, LETTok, IdTok("x"),
      EQTok, IdTok("x"), MINUSTok, NumTok(1), SEMICOLONTok, ENDTok,
      SEMICOLONTok, SHOWTok, LPARENTok, IdTok("x"), RPARENTok, SEMICOLONTok>>,
    \* 36: jotokhon ( mittha ) 1 sesh
    <<WHILETok, LPARENTok, FALSETok, RPARENTok, NumTok(1), ENDTok>>,
    \* 37: dekhao ( 1 , u , 2 ) ;
    <<SHOWTok, LPARENTok, NumTok(1), COMMATok, IdTok("u"), COMMATok,
      NumTok(2), RPARENTok, SEMICOLONTok>>,
    \* 38: dekhao ( 1 , 2 ) ;
    <<SHOWTok, LPARENTok, NumTok(1), COMMATok, NumTok(2), RPARENTok,
      SEMICOLONTok>>,
    \* 39: dekhao ( u ) ;
    <<SHOWTok, LPARENTok, IdTok("u"), RPARENTok, SEMICOLONTok>>,
    \* 40: dekhao ( ) ;
    <<SHOWTok, LPARENTok, RPARENTok, SEMICOLONTok>>,
    \* 41: dhori f = ekti kaj ( a ) dekhao ( a ) ; fero a ; sesh ; dekhao ( f ( 1 ) , u , f ( 2 ) ) ;
    <<LETTok, IdTok("f"), EQTok, EKTITok, FUNCTok, LPARENTok, IdTok("a"),
      RPARENTok, SHOWTok, LPARENTok, IdTok("a"), RPARENTok, SEMICOLONTok,
      RETURNTok, IdTok("a"), SEMICOLONTok, ENDTok, SEMICOLONTok, SHOWTok,
      LPARENTok, IdTok("f"), LPARENTok, NumTok(1), RPARENTok, COMMATok,
      IdTok("u"), COMMATok, IdTok("f"), LPARENTok, NumTok(2), RPARENTok,
      RPARENTok, SEMICOLONTok>>,
    \* 42: dhori x = 2 + 3 ; dekhao ( x ) ;
    <<LETTok, IdTok("x"), EQTok, NumTok(2), PLUSTok, NumTok(3), SEMICOLONTok,
      SHOWTok, LPARENTok, IdTok("x"), RPARENTok, SEMICOLONTok>>,
    \* 43: dhori c = ekti kaj ( x ) ekti kaj ( y ) fero x + y ; sesh sesh ; dhori add5 = c ( 5 ) ; dekhao ( add5 ( 7 ) ) ;
    <<LETTok, IdTok("c"), EQTok, EKTITok, FUNCTok, LPARENTok, IdTok("x"),
      RPARENTok, EKTITok, FUNCTok, LPARENTok, IdTok("y"), RPARENTok,
      RETURNTok, IdTok("x"), PLUSTok, IdTok("y"), SEMICOLONTok, ENDTok,
      ENDTok, SEMICOLONTok, LETTok, IdTok("add5"), EQTok, IdTok("c"),
      LPARENTok, NumTok(5), RPARENTok, SEMICOLONTok, SHOWTok, LPARENTok,
      IdTok("add5"), LPARENTok, NumTok(7), RPARENTok, RPARENTok,
      SEMICOLONTok>>,
    \* 44: dhori x = 1 ; dhori f = ekti kaj ( ) fero x ; sesh ; dhori x = 2 ; dekhao ( f ( ) ) ;
    <<LETTok, IdTok("x"), EQTok, NumTok(1), SEMICOLONTok, LETTok, IdTok("f"),
      EQTok, EKTITok, FUNCTok, LPARENTok, RPARENTok, RETURNTok, IdTok("x"),
      SEMICOLONTok, ENDTok, SEMICOLONTok, LETTok, IdTok("x"), EQTok,
      NumTok(2), SEMICOLONTok, SHOWTok, LPARENTok, IdTok("f"), LPARENTok,
      RPARENTok, RPARENTok, SEMICOLONTok>>,
    \* 45: dhori f = ekti kaj ( ) jotokhon ( sotto ) fero 1 ; sesh sesh ; f ( )
    <<LETTok, IdTok("f"), EQTok, EKTITok, FUNCTok, LPARENTok, RPARENTok,
      WHILETok, LPARENTok, TRUETok, RPARENTok, RETURNTok, NumTok(1),
      SEMICOLONTok, ENDTok, ENDTok, SEMICOLONTok, IdTok("f"), LPARENTok,
      RPARENTok>>,
    \* 46: dekhao ( 1 + "x" ) ;
    <<SHOWTok, LPARENTok, NumTok(1), PLUSTok, StrTok("x"), RPARENTok,
      SEMICOLONTok>>,
    \* 47: 1 ( 2 )
    <<NumTok(1), LPARENTok, NumTok(2), RPARENTok>>,
    \* 48: dhori f = ekti kaj ( a ) fero a ; sesh ; f ( )
    <<LETTok, IdTok("f"), EQTok, EKTITok, FUNCTok, LPARENTok, IdTok("a"),
      RPARENTok, RETURNTok, IdTok("a"), SEMICOLONTok, ENDTok, SEMICOLONTok,
      IdTok("f"), LPARENTok, RPARENTok>>,
    \* 49: (empty text)
    <<>>,
    \* 50: ! ! sotto
    <<EXCTok, EXCTok, TRUETok>>,
    \* 51: ! ! mittha
    <<EXCTok, EXCTok, FALSETok>>,
    \* 52: ! ! 0
    <<EXCTok, EXCTok, NumTok(0)>>,
    \* 53: ! ! 1
    <<EXCTok, EXCTok, NumTok(1)>>,
    \* 54: ! ! ""
    <<EXCTok, EXCTok, StrTok("")>>,
    \* 55: ! ! "a"
    <<EXCTok, EXCTok, StrTok("a")>>,
    \* 56: ! ! [ 1 ]
    <<EXCTok, EXCTok, LS_BRACKETTok, NumTok(1), RS_BRACKETTok>>,
    \* 57: ! ! [ 1 ] [ 5 ]
    <<EXCTok, EXCTok, LS_BRACKETTok, NumTok(1), RS_BRACKETTok, LS_BRACKETTok,
      NumTok(5), RS_BRACKETTok>>,
    \* 58: ! ! { }
    <<EXCTok, EXCTok, LBRACETok, RBRACETok>>,
    \* 59: ! ! ekti kaj ( ) sesh
    <<EXCTok, EXCTok, EKTITok, FUNCTok, LPARENTok, RPARENTok, ENDTok>>,
    \* 60: ! ! ( 1 < 2 )
    <<EXCTok, EXCTok, LPARENTok, NumTok(1), LTTok, NumTok(2), RPARENTok>>,
    \* 61: ! ! ( 2 < 1 )
    <<EXCTok, EXCTok, LPARENTok, NumTok(2), LTTok, NumTok(1), RPARENTok>>,
    \* 62: ! ! jodi ( mittha ) tahole 1 nahole sesh
    <<EXCTok, EXCTok, IFTok, LPARENTok, FALSETok, RPARENTok, TAHOLETok,
      NumTok(1), ELSETok, ENDTok>>,
    \* 63: ! ! jodi ( sotto ) tahole fero mittha ; nahole sesh
    <<EXCTok, EXCTok, IFTok, LPARENTok, TRUETok, RPARENTok, TAHOLETok,
      RETURNTok, FALSETok, SEMICOLONTok, ELSETok, ENDTok>>,
    \* 64: ! ! jodi ( sotto ) tahole fero 1 ; nahole sesh
    <<EXCTok, EXCTok, IFTok, LPARENTok, TRUETok, RPARENTok, TAHOLETok,
      RETURNTok, NumTok(1), SEMICOLONTok, ELSETok, ENDTok>>,
    \* 65: ! ! u
    <<EXCTok, EXCTok, IdTok("u")>>,
    \* 66: ! sotto
    <<EXCTok, TRUETok>>,
    \* 67: ! mittha
    <<EXCTok, FALSETok>>,
    \* 68: ! 0
    <<EXCTok, NumTok(0)>>,
    \* 69: ! 1
    <<EXCTok, NumTok(1)>>,
    \* 70: dhori x = 2 ; jotokhon ( 0 < x ) dhori x = x - 1 ; u sesh
    <<LETTok, IdTok("x"), EQTok, NumTok(2), SEMICOLONTok, WHILETok,
      LPARENTok, NumTok(0), LTTok, IdTok("x"), RPARENTok, LETTok, IdTok("x"),
      EQTok, IdTok("x"), MINUSTok, NumTok(1), SEMICOLONTok, IdTok("u"),
      ENDTok>>,
    \* 71: dhori x = 1 ; dhori f = ekti kaj ( ) x sesh ; dhori x = 2 ; f ( )
    <<LETTok, IdTok("x"), EQTok, NumTok(1), SEMICOLONTok, LETTok, IdTok("f"),
      EQTok, EKTITok, FUNCTok, LPARENTok, RPARENTok, IdTok("x"), ENDTok,
      SEMICOLONTok, LETTok, IdTok("x"), EQTok, NumTok(2), SEMICOLONTok,
      IdTok("f"), LPARENTok, RPARENTok>>,
    \* 72: dhori c = ekti kaj ( x ) ekti kaj ( ) x sesh sesh ; dhori g = c ( 5 ) ; dhori x = 1 ; g ( )
    <<LETTok, IdTok("c"), EQTok, EKTITok, FUNCTok, LPARENTok, IdTok("x"),
      RPARENTok, EKTITok, FUNCTok, LPARENTok, RPARENTok, IdTok("x"), ENDTok,
      ENDTok, SEMICOLONTok, LETTok, IdTok("g"), EQTok, IdTok("c"), LPARENTok,
      NumTok(5), RPARENTok, SEMICOLONTok, LETTok, IdTok("x"), EQTok,
      NumTok(1), SEMICOLONTok, IdTok("g"), LPARENTok, RPARENTok>>,
    \* 73: dhori x = 1 ; dhori y = 3 ; dhori f = ekti kaj ( x ) dhori y = x ; dhori x = 5 ; y sesh ; f ( 9 )
    <<LETTok, IdTok("x"), EQTok, NumTok(1), SEMICOLONTok, LETTok, IdTok("y"),
      EQTok, NumTok(3), SEMICOLONTok, LETTok, IdTok("f"), EQTok, EKTITok,
      FUNCTok, LPARENTok, IdTok("x"), RPARENTok, LETTok, IdTok("y"), EQTok,
      IdTok("x"), SEMICOLONTok, LETTok, IdTok("x"), EQTok, NumTok(5),
      SEMICOLONTok, IdTok("y"), ENDTok, SEMICOLONTok, IdTok("f"), LPARENTok,
      NumTok(9), RPARENTok>>,
    \* 74: dhori f = ekti kaj ( x ) dhori x = 5 ; sesh ; dhori g = ekti kaj ( x ) f ( 7 ) ; fero x ; sesh ; g ( 1 )
    <<LETTok, IdTok("f"), EQTok, EKTITok, FUNCTok, LPARENTok, IdTok("x"),
      RPARENTok, LETTok, IdTok("x"), EQTok, NumTok(5), SEMICOLONTok, ENDTok,
      SEMICOLONTok, LETTok, IdTok("g"), EQTok, EKTITok, FUNCTok, LPARENTok,
      IdTok("x"), RPARENTok, IdTok("f"), LPARENTok, NumTok(7), RPARENTok,
      SEMICOLONTok, RETURNTok, IdTok("x"), SEMICOLONTok, ENDTok,
      SEMICOLONTok, IdTok("g"), LPARENTok, NumTok(1), RPARENTok>>,
    \* 75: dhori f = ekti kaj ( ) dhori x = 2 ; jotokhon ( 0 < x ) dhori x = x - 1 ; fero x ; sesh sesh ; f ( )
    <<LETTok, IdTok("f"), EQTok, EKTITok, FUNCTok, LPARENTok, RPARENTok,
      LETTok, IdTok("x"), EQTok, NumTok(2), SEMICOLONTok, WHILETok,
      LPARENTok, NumTok(0), LTTok, IdTok("x"), RPARENTok, LETTok, IdTok("x"),
      EQTok, IdTok("x"), MINUSTok, NumTok(1), SEMICOLONTok, RETURNTok,
      IdTok("x"), SEMICOLONTok, ENDTok, ENDTok, SEMICOLONTok, IdTok("f"),
      LPARENTok, RPARENTok>>,
    \* 76: anoo "nest" ;
    <<INCLUDETok, StrTok("nest"), SEMICOLONTok>>,
    \* 77: dhori x = 1 ; anoo "none" ;
    <<LETTok, IdTok("x"), EQTok, NumTok(1), SEMICOLONTok, INCLUDETok,
      StrTok("none"), SEMICOLONTok>>,
    \* 78: dhori x = 1 ; anoo "bad" ;
    <<LETTok, IdTok("x"), EQTok, NumTok(1), SEMICOLONTok, INCLUDETok,
      StrTok("bad"), SEMICOLONTok>>,
    \* 79: dhori c = ekti kaj ( x ) ekti kaj ( ) x sesh sesh ; dhori g = c ( 5 ) ; anoo "lib" ;
    <<LETTok, IdTok("c"), EQTok, EKTITok, FUNCTok, LPARENTok, IdTok("x"),
      RPARENTok, EKTITok, FUNCTok, LPARENTok, RPARENTok, IdTok("x"), ENDTok,
      ENDTok, SEMICOLONTok, LETTok, IdTok("g"), EQTok, IdTok("c"), LPARENTok,
      NumTok(5), RPARENTok, SEMICOLONTok, INCLUDETok, StrTok("lib"),
      SEMICOLONTok>>
  >>
\* END ProgramList

Programs == {ProgramList[i] : i \in DOMAIN ProgramList}

\* the orders in which the entries of a Go map may be ranged over
Orders ==
  {o \in [1..MaxPairs -> 1..MaxPairs] : \A i, j \in 1..MaxPairs : i # j => o[i] # o[j]}
SourceOrder == [i \in 1..MaxPairs |-> i]

\* ------------------------------------------------------------------- state
VARIABLES
  src,     \* the token stream of the program text
  parser,  \* the Parser
  prog,    \* prog.Stmts of the ast.Program being built, then evaluated
  phase,   \* "parse", "parsed", "eval", "done"
  ip,      \* the statement evalProg's loop is at
  before,  \* the evaluator's state when the last round of evalProg began
  st,      \* the evaluator's state: heap[1] is the program's environment
  res      \* evalProg's res

vars == <<src, parser, prog, phase, ip, before, st, res>>

\* ParseProg, one round of its loop at a time
ParseProgRound ==
  /\ phase = "parse"
  /\ curTok(parser).t # "EOF"
  /\ \E s \in {ParseProgStep(parser)} :
       /\ parser' = s.p
       /\ prog' = Append(prog, s.n)
  /\ UNCHANGED <<src, phase, ip, before, st, res>>

ParseProgReturn ==
  /\ phase = "parse"
  /\ curTok(parser).t = "EOF"
  /\ phase' = "parsed"
  /\ UNCHANGED <<src, parser, prog, ip, before, st, res>>

\* the host runs a program that parsed without errors: a new environment,
\* an empty print buffer, and this run's order of ranging over maps
EvalProgram ==
  /\ phase = "parsed"
  /\ parser.errs = <<>>
  /\ \E ord \in Orders :
       /\ st' = NewState(ord)
       /\ before' = NewState(ord)
  /\ phase' = "eval"
  /\ UNCHANGED <<src, parser, prog, ip, res>>

\* evalProg, one round of its loop at a time
EvalProgRound ==
  /\ phase = "eval"
  /\ ip <= Len(prog)
  /\ \E r \in {evalProgRound(prog[ip], 1, st)} :
       /\ st' = r.st
       /\ res' = r.v
       /\ phase' = IF r.done THEN "done" ELSE "eval"
  /\ before' = st
  /\ ip' = ip + 1
  /\ UNCHANGED <<src, parser, prog>>

EvalProgReturn ==
  /\ phase = "eval"
  /\ ip > Len(prog)
  /\ phase' = "done"
  /\ UNCHANGED <<src, parser, prog, ip, before, st, res>>

InitWith(sources) ==
  /\ src \in sources
  /\ parser = NewParser(src)
  /\ prog = <<>>
  /\ phase = "parse"
  /\ ip = 1
  /\ before = NewState(SourceOrder)
  /\ st = NewState(SourceOrder)
  /\ res = NilObj

\* the interpreter on the programs
Init == InitWith(Programs)
Next ==
  \/ ParseProgRound
  \/ ParseProgReturn
  \/ EvalProgram
  \/ EvalProgRound
  \/ EvalProgReturn
Spec == Init /\ [][Next]_vars

\* the parser alone on the generated token streams
InitParse == InitWith(Streams(MaxLen) \cup IfElseSources)
NextParse == ParseProgRound \/ ParseProgReturn
SpecParse == InitParse /\ [][NextParse]_vars

\* ------------------------------------------------------------------ claims
\* the statement the last round of evalProg evaluated, from state `before`
JustEvaluated == phase \in {"eval", "done"} /\ ip > 1
LastStmt == prog[ip - 1]
LastIsExpr(type) ==
  JustEvaluated /\ LastStmt.type = "ExprStmt" /\ LastStmt.expr.type = type

\* C1 (as claimed): when an operand of a prefix, infix or index expression
\* evaluates to an Error, the expression evaluates to that same Error.
C1_ErrorVirality ==
  /\ LastIsExpr("PrefixExpr") =>
       LET r == Eval(LastStmt.expr.right, 1, before) IN
       isErr(r.v) => res = r.v
  /\ LastIsExpr("InfixExpr") =>
       LET l == Eval(LastStmt.expr.left, 1, before)
           r == Eval(LastStmt.expr.right, 1, l.st)
       IN  /\ isErr(l.v) => res = l.v
           /\ (~isErr(l.v) /\ ~Aborted(l.v) /\ isErr(r.v)) => res = r.v
  /\ LastIsExpr("IndexExpr") =>
       LET l == Eval(LastStmt.expr.left, 1, before)
           i == Eval(LastStmt.expr.index, 1, l.st)
       IN  /\ isErr(l.v) => res = l.v
           /\ (~isErr(l.v) /\ ~Aborted(l.v) /\ isErr(i.v)) => res = i.v

\* C2 (as claimed): a ReturnValue is never bound in an environment, never
\* the result of a program, and never an operand of a prefix, infix or
\* index operation.
C2_ReturnValueNeverEscapes ==
  /\ \A e \in 1..Len(st.heap) : \A n \in DOMAIN st.heap[e].store :
       st.heap[e].store[n].type # "RETURN_VAL"
  /\ phase = "done" => res.type # "RETURN_VAL"
  /\ LastIsExpr("PrefixExpr") =>
       Eval(LastStmt.expr.right, 1, before).v.type # "RETURN_VAL"
  /\ LastIsExpr("InfixExpr") =>
       LET l == Eval(LastStmt.expr.left, 1, before) IN
       /\ l.v.type # "RETURN_VAL"
       /\ (~isErr(l.v) /\ ~Aborted(l.v)) =>
            Eval(LastStmt.expr.right, 1, l.st).v.type # "RETURN_VAL"
  /\ LastIsExpr("IndexExpr") =>
       LET l == Eval(LastStmt.expr.left, 1, before) IN
       /\ l.v.type # "RETURN_VAL"
       /\ (~isErr(l.v) /\ ~Aborted(l.v)) =>
            Eval(LastStmt.expr.index, 1, l.st).v.type # "RETURN_VAL"

\* C3 (as claimed): Eval of a statement returns an object, never nothing,
\* so that the program's result after any statement is an object.
C3_EvalNeverAbsent ==
  JustEvaluated => res.type # "nil"

\* C4 (as claimed): two runs of a program without `anoo` end with the same
\* print buffer and the same result; the other run is the one that ranges
\* over every map in source order.
HasInclude(toks) == \E i \in 1..Len(toks) : toks[i].t = "INCLUDE"
SameResult(a, b) ==
  /\ a.type = b.type
  /\ a.type \in {"NUM", "STRING", "BOOLEAN", "ERROR"} => a = b
C4_Deterministic ==
  (phase = "done" /\ ~HasInclude(src)) =>
    LET other == evalProg(prog, 1, NewState(SourceOrder)) IN
    /\ st.buf = other.st.buf
    /\ SameResult(res, other.v)

\* C6 (as claimed): once the condition or the body of a loop has evaluated
\* to an Error, nothing more of that loop is evaluated, and the loop yields
\* the Error.
C6_WhileStopsOnError ==
  /\ \A i, j \in 1..Len(st.log) :
       (i < j /\ st.log[i].loop = st.log[j].loop) => st.log[i].type # "ERROR"
  /\ (LastIsExpr("WhileExpr") /\ Len(st.log) > Len(before.log)) =>
       LET first == st.log[Len(before.log) + 1] IN
       (\E i \in (Len(before.log) + 1)..Len(st.log) :
          st.log[i].loop = first.loop /\ st.log[i].type = "ERROR") => isErr(res)

\* C7 (as claimed): an if whose else block is empty yields Null when the
\* condition is not truthy, and the value of the true block when it is.
C7_IfWithoutElseYieldsNull ==
  (LastIsExpr("IfExpr") /\ LastStmt.expr.elseBlock.stmts = <<>>) =>
    LET cond == Eval(LastStmt.expr.cond, 1, before) IN
    (~Aborted(cond.v) /\ ~isErr(cond.v)) =>
      IF cond.v # NULL /\ cond.v # FalseObj
      THEN res = evalProgRound(LastStmt.expr.trueBlock, 1, cond.st).v
      ELSE res = NULL

\* C8 (as claimed): `jodi ( sotto ) tahole S.. nahole T.. sesh 4 ;` parses
\* without error to the if with true block S.. and else block T.., followed
\* by the statement `4`.
SimpleStmtNodes ==
  << [type |-> "ExprStmt", expr |-> [type |-> "NumberLit", value |-> 1]],
     [type |-> "ShowStmt", value |-> <<[type |-> "NumberLit", value |-> 2]>>],
     [type |-> "LetStmt", name |-> "x",
      value |-> [type |-> "NumberLit", value |-> 3]] >>
StmtNodes(ix) == [i \in 1..Len(ix) |-> SimpleStmtNodes[ix[i]]]
IfElseProgram(ss, ts) ==
  << [type |-> "ExprStmt",
      expr |-> [type |-> "IfExpr",
                cond |-> [type |-> "Boolean", value |-> TRUE],
                trueBlock |-> [type |-> "BlockStmt", stmts |-> StmtNodes(ss)],
                elseBlock |-> [type |-> "BlockStmt", stmts |-> StmtNodes(ts)]]],
     [type |-> "ExprStmt", expr |-> [type |-> "NumberLit", value |-> 4]] >>
C8_ElseBlockParsed ==
  \A ss, ts \in StmtSeqs(MaxStmts) :
    (phase = "parsed" /\ src = IfElseSource(ss, ts)) =>
      /\ parser.errs = <<>>
      /\ prog = IfElseProgram(ss, ts)

\* C9 (as claimed): a `dekhao` one of whose arguments evaluates to an Error
\* yields that Error and writes nothing; any other `dekhao` writes one line,
\* the Inspect strings of its arguments and a newline, and yields Null.
C9_ShowStopsOnError ==
  (JustEvaluated /\ LastStmt.type = "ShowStmt") =>
    LET args == evalExprs(LastStmt.value, 1, before) IN
    (~Aborted(args.ab) /\ ~HasNilIn(args.vs)) =>
      IF Len(args.vs) = 1 /\ isErr(args.vs[1])
      THEN res = args.vs[1] /\ st.buf = args.st.buf
      ELSE /\ res = NULL
           /\ st.buf = Append(args.st.buf,
                Join([i \in 1..Len(args.vs) |-> Inspect(args.vs[i])]) \o "\n")

IsDoubleBang ==
  /\ LastIsExpr("PrefixExpr")
  /\ LastStmt.expr.op = "!"
  /\ LastStmt.expr.right.type = "PrefixExpr"
  /\ LastStmt.expr.right.op = "!"
C10_TruthinessLaw ==
  IsDoubleBang =>
    LET x == Eval(LastStmt.expr.right.right, 1, before) IN
    (~Aborted(x.v) /\ ~isErr(x.v)) =>
      /\ res = (IF x.v # NULL /\ x.v # FalseObj THEN TrueObj ELSE FalseObj)
      /\ isTruthy(x.v) = (res = TrueObj)

\* `!!x` has been evaluated for an x that is the NULL object
C10_Witness ==
  /\ IsDoubleBang
  /\ Eval(LastStmt.expr.right.right, 1, before).v = NULL
  /\ res = FalseObj

\* the last statement is a call `f(a, ...)` of a Function bound to f, with
\* literals for arguments and as many of them as f has parameters
IsLiteral(node) == node.type \in {"NumberLit", "StringLit", "Boolean"}
IsPlainCall(stmt) ==
  /\ stmt.type = "ExprStmt"
  /\ stmt.expr.type = "CallExpr"
  /\ stmt.expr.func.type = "Identifier"
  /\ \A i \in 1..Len(stmt.expr.args) : IsLiteral(stmt.expr.args[i])
Callee == EnvGet(before.heap, 1, LastStmt.expr.func.value)
CalledFunction ==
  /\ JustEvaluated
  /\ IsPlainCall(LastStmt)
  /\ Callee.ok
  /\ Callee.val.type = "FUNCTION"
  /\ Len(Callee.val.params) = Len(LastStmt.expr.args)
\* stmt hands on the value of a name: `n` or `fero n`
ReadsName(stmt) ==
  \/ stmt.type = "ExprStmt" /\ stmt.expr.type = "Identifier"
  \/ stmt.type = "ReturnStmt" /\ stmt.returnVal.type = "Identifier"
NameRead(stmt) ==
  IF stmt.type = "ExprStmt" THEN stmt.expr.value ELSE stmt.returnVal.value
IsParam(fn, n) == \E i \in 1..Len(fn.params) : fn.params[i] = n

\* C11: a call of a Function whose body is the one name n, not a parameter,
\* yields what n is bound to, at the time of the call, in the environment
\* the Function captured; a call changes no environment that was there
\* before it (not the captured one, not the caller's); and a body that
\* calls a function and then hands on its own parameter yields the
\* argument it was called with.
C11_ClosureLaw ==
  CalledFunction =>
    LET fn == Callee.val
        stmts == fn.body.stmts
    IN  /\ (Len(stmts) = 1 /\ ReadsName(stmts[1])
             /\ ~IsParam(fn, NameRead(stmts[1]))
             /\ EnvGet(before.heap, fn.env, NameRead(stmts[1])).ok) =>
              res = EnvGet(before.heap, fn.env, NameRead(stmts[1])).val
        /\ \A e \in 1..Len(before.heap) : st.heap[e] = before.heap[e]
        /\ (Len(stmts) = 2 /\ Len(fn.params) = 1 /\ IsPlainCall(stmts[1])
             /\ ReadsName(stmts[2]) /\ NameRead(stmts[2]) = fn.params[1]
             /\ res.type # "ERROR") =>
              res = Eval(LastStmt.expr.args[1], 1, before).v
\* a call whose result is the value of a `dhori` that came after the
\* function literal, and a call whose body set names its caller has
C11_Witness ==
  /\ CalledFunction
  /\ LET fn == Callee.val
         stmts == fn.body.stmts
     IN  \/ /\ Len(stmts) = 1 /\ ReadsName(stmts[1])
            /\ \E i, j \in 1..(ip - 2) :
                 /\ i < j
                 /\ prog[i].type = "LetStmt"
                 /\ prog[i].name = LastStmt.expr.func.value
                 /\ prog[i].value.type = "FunctionLit"
                 /\ prog[j].type = "LetStmt"
                 /\ prog[j].name = NameRead(stmts[1])
            /\ res = NumberObj(2)
         \/ /\ \E i \in 1..Len(stmts) :
                 /\ stmts[i].type = "LetStmt"
                 /\ stmts[i].name \in DOMAIN before.heap[1].store
                 /\ IsParam(fn, stmts[i].name)
            /\ res = NumberObj(9)

\* the last statement is `anoo "name"`; the file it names and its program
IsInclude ==
  JustEvaluated /\ LastStmt.type = "IncludeStmt"
                /\ LastStmt.filename.type = "StringLit"
IncludedFile == FileSystem(LastStmt.filename.value)
IncludedProg == ParseProg(IncludedFile.toks)
IncludeSucceeds ==
  /\ IsInclude
  /\ IncludedFile.exists
  /\ IncludedFile.readable
  /\ IncludedProg.p.errs = <<>>
\* the last `dhori` of name n at the top level of stmts, or 0
LastLet(stmts, n) ==
  LET is == {i \in 1..Len(stmts) : stmts[i].type = "LetStmt" /\ stmts[i].name = n}
  IN  IF is = {} THEN 0 ELSE CHOOSE i \in is : \A j \in is : j <= i
\* what a program binds to n: the binding in its environment once its
\* last `dhori` of n has run
BoundBy(stmts, n) ==
  EnvGet(evalProg(SubSeq(stmts, 1, LastLet(stmts, n)), 1,
                  NewState(st.ord)).st.heap, 1, n)

\* C12 (as claimed): after a successful `anoo`, every name the included
\* program bound at its top level resolves from the including environment
\* to the value it was bound to; after an `anoo` that yields an Error, no
\* environment has changed.
C12_IncludeExposesBindings ==
  /\ IncludeSucceeds =>
       \A i \in 1..Len(IncludedProg.n) :
         (IncludedProg.n[i].type = "LetStmt"
          /\ BoundBy(IncludedProg.n, IncludedProg.n[i].name).ok) =>
           /\ EnvGet(st.heap, 1, IncludedProg.n[i].name).ok
           /\ SameResult(EnvGet(st.heap, 1, IncludedProg.n[i].name).val,
                         BoundBy(IncludedProg.n, IncludedProg.n[i].name).val)
  /\ (IsInclude /\ res.type = "ERROR") =>
       \A e \in 1..Len(before.heap) : st.heap[e] = before.heap[e]

\* stmt is a `jotokhon` loop
IsWhile(stmt) == stmt.type = "ExprStmt" /\ stmt.expr.type = "WhileExpr"
\* the log entries of the last statement
NewLog == (Len(before.log) + 1)..Len(st.log)

\* C13 (as claimed): once the body of a loop has evaluated to a ReturnValue,
\* nothing more of that loop is evaluated; and a call of a function whose
\* body has the loop as a statement returns the value of that first `fero`.
C13_ReturnEndsLoop ==
  /\ \A i, j \in 1..Len(st.log) :
       (i < j /\ st.log[i].loop = st.log[j].loop) =>
         st.log[i].type # "RETURN_VAL"
  /\ (CalledFunction /\ NewLog # {}
      /\ \E k \in 1..Len(Callee.val.body.stmts) :
           IsWhile(Callee.val.body.stmts[k])) =>
       \A i \in NewLog :
         (/\ st.log[i].loop = st.log[Len(before.log) + 1].loop
          /\ st.log[i].type = "RETURN_VAL"
          /\ \A j \in NewLog : j < i => st.log[j].type # "RETURN_VAL") =>
           res = st.log[i].val.value

\* every name bound in some environment of the heap
NamesIn(heap) == UNION {DOMAIN heap[e].store : e \in 1..Len(heap)}
BindsAtTopLevel(stmts, n) ==
  \E i \in 1..Len(stmts) : stmts[i].type = "LetStmt" /\ stmts[i].name = n

\* C14 (as claimed): after a successful `anoo`, a name that resolved from
\* an environment before it (the including environment, or one a closure
\* captured) still resolves from that environment, and to the same value
\* unless the included program binds the name.
C14_IncludePreservesBindings ==
  IncludeSucceeds =>
    \A e \in 1..Len(before.heap) : \A n \in NamesIn(before.heap) :
      EnvGet(before.heap, e, n).ok =>
        /\ EnvGet(st.heap, e, n).ok
        /\ \/ EnvGet(st.heap, e, n).val = EnvGet(before.heap, e, n).val
           \/ BindsAtTopLevel(IncludedProg.n, n)

\* C15 (as claimed): an `anoo` of a file whose parse records an error
\* yields the Error "Include file contains parsing errors" and leaves the
\* print buffer as it was.
C15_ParseErrorsNoEffect ==
  (IsInclude /\ IncludedFile.exists /\ IncludedFile.readable
   /\ IncludedProg.p.errs # <<>>) =>
    /\ res = NewErr("Include file contains parsing errors")
    /\ st.buf = before.buf

====
